---- MODULE Spec2Model ----
(***************************************************************************)
(* Model of schoolshits_etl/main.py: the source adapter                     *)
(* (load_and_normalize_source), the title parsers (parse_grade_and_term,    *)
(* parse_subject, parse_category, parse_version) and the pipeline main().   *)
(*                                                                         *)
(* Text.  A Python str is a sequence of characters; every character is a    *)
(* one-token string.  The Chinese characters of the source are written by   *)
(* a romanised token (homophones get a digit):                              *)
(*   一 yi 二 er 三 san 四 si 五 wu 六 liu   年 nian 级 ji  上 shang 下 xia  *)
(*   册 ce  语 yu 文 wen 数 shu 学 xue 英 ying 科 ke 书 shu1 法 fa           *)
(*   道 dao 德 de 与 yu3 治 zhi 品 pin 社 she 会 hui 音 yin 乐 yue4          *)
(*   美 mei 术 shu4 信 xin 息 xi 技 ji4 综 zong 合 he 实 shi2 践 jian        *)
(*   体 ti 育 yu4 健 jian4 康 kang 教 jiao 参 can 师 shi 用 yong 生 sheng    *)
(*   活 huo 动 dong 手 shou 练 lian 习 xi2 光 guang 盘 pan 具 ju 字 zi       *)
(*   典 dian 案 an 辅 fu 导 dao3 同 tong 步 bu 训 xun 北 bei 大 da 版 ban    *)
(*   人 ren 粤 yue 配 pei 湖 hu 南 nan 江 jiang 苏 su 高 gao 材 cai          *)
(*   发 fa1 货 huo4 单 dan 明 ming2 细 xi4 目 mu 录 lu 免 mian 费 fei        *)
(*   是 shi4 否 fou 名 ming                                                 *)
(*   full-width brackets （ ） are "FW(" and "FW)", U+3000 is "u3000".      *)
(*                                                                         *)
(* Values.  A Python / pandas scalar is a record [kind, s, n]:             *)
(*   kind "none" (None), "nan" (float NaN, a blank cell), "str" (s holds    *)
(*   the characters), "float" (n holds the value in tenths), "int" (n holds *)
(*   the value).                                                            *)
(***************************************************************************)
EXTENDS Integers, Sequences, FiniteSets, TLC

VARIABLES
    pc,             \* position of main(): start, loaded, keyed, sorted, filling, side, done, failed
    first_cell,     \* raw.iloc[0, 0] of the source workbook
    columns,        \* the headers (by role) the source table carries
    records,        \* the data records of the source table, in file order
    detected,       \* the format the adapter reports ("Format detected: ...")
    df_src,         \* the canonical rows (after load, then after sort)
    tpl,            \* the template workbook on disk and --start-row
    ws,             \* the active worksheet in memory
    max_col,        \* ws.max_column read before the loop
    current_row,    \* next template row to write
    idx,            \* enumerate() index of the loop
    stats,          \* processed / missing_grade / missing_subject
    main_rows,      \* the values lists written so far, in loop order
    out_main,       \* the file at --output
    out_side,       \* the file at --side-output
    io,             \* which file operations the file system lets succeed
    book_name,      \* argument of the title parsers
    fallback_version, \* second argument of parse_version
    parsed          \* what the parsers returned

vars == <<pc, first_cell, columns, records, detected, df_src, tpl, ws, max_col,
          current_row, idx, stats, main_rows, out_main, out_side, io,
          book_name, fallback_version, parsed>>

----------------------------------------------------------------------------
(* Python values *)

NoneV == [kind |-> "none", s |-> <<>>, n |-> 0]

NaN == [kind |-> "nan", s |-> <<>>, n |-> 0]

Str(chars) == [kind |-> "str", s |-> chars, n |-> 0]

FloatV(tenths) == [kind |-> "float", s |-> <<>>, n |-> tenths]

IntV(i) == [kind |-> "int", s |-> <<>>, n |-> i]

isinstance_str(x) == x.kind = "str"

\* Python truthiness of a parser result ("if not grade")
Truthy(x) == x.kind = "str" /\ x.s # <<>>

----------------------------------------------------------------------------
(* str operations *)

\* sub in text
Contains(sub, text) ==
    \E i \in 1..(Len(text) - Len(sub) + 1) : SubSeq(text, i, i + Len(sub) - 1) = sub

\* text.find(sub), 1-based; 0 when absent
Find(sub, text) ==
    LET hits == {i \in 1..(Len(text) - Len(sub) + 1) : SubSeq(text, i, i + Len(sub) - 1) = sub}
    IN  IF hits = {} THEN 0 ELSE CHOOSE i \in hits : \A j \in hits : i <= j

WhiteSpace == {" ", "u3000"}

\* text.replace("（", "(").replace("）", ")")
ReplaceBrackets(text) ==
    [i \in 1..Len(text) |->
        IF text[i] = "FW(" THEN "(" ELSE IF text[i] = "FW)" THEN ")" ELSE text[i]]

\* text.strip()
Strip(text) ==
    LET keep == {i \in 1..Len(text) : text[i] \notin WhiteSpace}
    IN  IF keep = {} THEN <<>>
        ELSE LET lo == CHOOSE i \in keep : \A j \in keep : i <= j
                 hi == CHOOSE i \in keep : \A j \in keep : j <= i
             IN  SubSeq(text, lo, hi)

normalize_text(text) ==
    IF ~isinstance_str(text) THEN <<>> ELSE Strip(ReplaceBrackets(text.s))

----------------------------------------------------------------------------
(* parse_grade_and_term *)

ChineseNumerals == {"yi", "er", "san", "si", "wu", "liu"}

Digits == {"1", "2", "3", "4", "5", "6"}

grade_map(tok) ==
    CASE tok \in {"yi", "1"} -> <<"yi", "nian", "ji">>
      [] tok \in {"er", "2"} -> <<"er", "nian", "ji">>
      [] tok \in {"san", "3"} -> <<"san", "nian", "ji">>
      [] tok \in {"si", "4"} -> <<"si", "nian", "ji">>
      [] tok \in {"wu", "5"} -> <<"wu", "nian", "ji">>
      [] tok \in {"liu", "6"} -> <<"liu", "nian", "ji">>

Least(S) == CHOOSE i \in S : \A j \in S : i <= j

\* the element of a one-element set: {e(x) : x \in {v}} computes v once
Only(S) == CHOOSE x \in S : TRUE

\* re.search(r"((一|二|三|四|五|六)|([1-6]))年级", text): start positions of a match
GradeHits(text) ==
    {i \in 1..(Len(text) - 2) :
        /\ text[i] \in ChineseNumerals \cup Digits
        /\ text[i + 1] = "nian"
        /\ text[i + 2] = "ji"}

\* re.search(r"([一二三四五六])(?=[上下])", text): start positions of a match
FallbackHits(text) ==
    {i \in 1..(Len(text) - 1) :
        /\ text[i] \in ChineseNumerals
        /\ text[i + 1] \in {"shang", "xia"}}

\* re.search(r"上册?|\(上\)", text) with mark = 上, likewise 下
TermSearch(mark, text) ==
    \/ \E i \in 1..Len(text) : text[i] = mark
    \/ Contains(<<"(", mark, ")">>, text)

parse_grade(text) ==
    IF GradeHits(text) # {} THEN Str(grade_map(text[Least(GradeHits(text))]))
    ELSE IF FallbackHits(text) # {} THEN Str(grade_map(text[Least(FallbackHits(text))]))
    ELSE NoneV

parse_term(text) ==
    IF TermSearch("shang", text) THEN Str(<<"shang", "xue", "qi">>)
    ELSE IF TermSearch("xia", text) THEN Str(<<"xia", "xue", "qi">>)
    ELSE NoneV

parse_grade_and_term(name) ==
    IF ~isinstance_str(name) THEN <<NoneV, NoneV>>
    ELSE Only({<<parse_grade(text), parse_term(text)>> : text \in {normalize_text(name)}})

----------------------------------------------------------------------------
(* parse_subject *)

subjects ==
    << <<"dao", "de", "yu3", "fa", "zhi">>,
       <<"yu", "wen">>,
       <<"shu", "xue">>,
       <<"ying", "yu">>,
       <<"ke", "xue">>,
       <<"shu1", "fa">>,
       <<"pin", "de", "yu3", "she", "hui">>,
       <<"yin", "yue4">>,
       <<"mei", "shu4">>,
       <<"xin", "xi", "ji4", "shu4">>,
       <<"zong", "he", "shi2", "jian">>,
       <<"ti", "yu4", "yu3", "jian4", "kang">>,
       <<"ti", "yu4">> >>

\* index of the first entry of list that occurs in text, 0 when none does
FirstIn(list, text) ==
    LET hits == {k \in 1..Len(list) : Contains(list[k], text)}
    IN  IF hits = {} THEN 0 ELSE Least(hits)

parse_subject(name) ==
    IF ~isinstance_str(name) THEN NoneV
    ELSE LET k == FirstIn(subjects, name.s)
         IN  IF k = 0 THEN NoneV
             ELSE IF subjects[k] \in {<<"ti", "yu4">>, <<"ti", "yu4", "yu3", "jian4", "kang">>}
                  THEN Str(<<"ti", "yu4">>)
             ELSE Str(subjects[k])

----------------------------------------------------------------------------
(* parse_category *)

keywords ==
    << <<"jiao", "can">>,
       <<"jiao", "shi", "yong", "shu1">>,
       <<"xue", "sheng", "huo", "dong", "shou", "ce">>,
       <<"lian", "xi2">>,
       <<"guang", "pan">>,
       <<"xue", "ju">>,
       <<"zi", "dian">>,
       <<"jiao", "an">>,
       <<"fu", "dao3">>,
       <<"tong", "bu">>,
       <<"dao3", "xue">>,
       <<"xun", "lian">> >>

JiaoFu == <<"jiao", "fu">>

JiaoCai == <<"jiao", "cai">>

\* parse_category without the default: no keyword gives None
parse_category_nodefault(name) ==
    IF ~isinstance_str(name) THEN NoneV
    ELSE IF FirstIn(keywords, name.s) # 0 THEN Str(JiaoFu)
    ELSE NoneV

parse_category(name) ==
    IF ~isinstance_str(name) THEN NoneV
    ELSE IF FirstIn(keywords, name.s) # 0 THEN Str(JiaoFu)
    ELSE Str(JiaoCai)

----------------------------------------------------------------------------
(* parse_version *)

BeiShiDa == <<"bei", "shi", "da">>

BeiShiDaBan == <<"bei", "shi", "da", "ban">>

explicit_patterns ==
    << BeiShiDaBan,
       BeiShiDa,
       <<"ren", "jiao", "ban">>,
       <<"yue", "jiao", "ban">>,
       <<"ren", "yin", "ban">>,
       <<"ren", "mei", "ban">>,
       <<"yu", "wen", "S", "ban">>,
       <<"yu", "wen", "she", "S", "ban">> >>

publishers ==
    << <<"hu", "nan", "mei", "shu4">>,
       <<"jiang", "su", "jiao", "yu4">>,
       <<"yue", "jiao", "ke", "ji4">>,
       <<"yue", "jiao", "yu4">>,
       <<"yue", "gao", "jiao">> >>

\* the characters the class [^\)（）] excludes
PeiExcluded == {")", "FW(", "FW)"}

\* end of the longest run of class characters that starts at k
RECURSIVE RunEnd(_, _)
RunEnd(text, k) ==
    IF k < Len(text) /\ text[k + 1] \notin PeiExcluded THEN RunEnd(text, k + 1) ELSE k

\* first position at or after k that holds no white space (Len + 1 when none)
RECURSIVE SkipSpace(_, _)
SkipSpace(text, k) ==
    IF k <= Len(text) /\ text[k] \in WhiteSpace THEN SkipSpace(text, k + 1) ELSE k

\* group(1) of r"配\s*([^\)（）]+)" matched at position i, <<FALSE, _>> when the
\* pattern does not match there.  \s* is greedy and gives one character back
\* when the class finds nothing after it.
PeiMatchAt(text, i) ==
    LET k == SkipSpace(text, i + 1)
    IN  IF text[i] # "pei" THEN <<FALSE, <<>>>>
        ELSE IF k <= Len(text) /\ text[k] \notin PeiExcluded
             THEN <<TRUE, SubSeq(text, k, RunEnd(text, k))>>
        ELSE IF k > i + 1 THEN <<TRUE, SubSeq(text, k - 1, k - 1)>>
        ELSE <<FALSE, <<>>>>

PeiHits(text) == {i \in 1..Len(text) : PeiMatchAt(text, i)[1]}

\* parse_version with the explicit token chosen by its position in the title
parse_version_leftmost(name, fallback) ==
    IF ~isinstance_str(name) THEN fallback
    ELSE LET text == ReplaceBrackets(name.s)
             present == {k \in 1..Len(explicit_patterns) : Contains(explicit_patterns[k], text)}
             e == IF present = {} THEN 0
                  ELSE CHOOSE k \in present : \A j \in present :
                        \/ Find(explicit_patterns[k], text) < Find(explicit_patterns[j], text)
                        \/ /\ Find(explicit_patterns[k], text) = Find(explicit_patterns[j], text)
                           /\ k <= j
             p == FirstIn(publishers, text)
         IN  IF e # 0
             THEN (IF explicit_patterns[e] = BeiShiDa THEN Str(BeiShiDaBan)
                   ELSE Str(explicit_patterns[e]))
             ELSE IF PeiHits(text) # {}
             THEN LET v == Strip(PeiMatchAt(text, Least(PeiHits(text)))[2])
                  IN  IF Contains(BeiShiDa, v) THEN Str(BeiShiDaBan) ELSE Str(v)
             ELSE IF p # 0 THEN Str(publishers[p])
             ELSE fallback

parse_version(name, fallback) ==
    IF ~isinstance_str(name) THEN fallback
    ELSE LET text == ReplaceBrackets(name.s)
             e == FirstIn(explicit_patterns, text)
             p == FirstIn(publishers, text)
         IN  IF e # 0
             THEN (IF explicit_patterns[e] = BeiShiDa THEN Str(BeiShiDaBan)
                   ELSE Str(explicit_patterns[e]))
             ELSE IF PeiHits(text) # {}
             THEN LET v == Strip(PeiMatchAt(text, Least(PeiHits(text)))[2])
                  IN  IF Contains(BeiShiDa, v) THEN Str(BeiShiDaBan) ELSE Str(v)
             ELSE IF p # 0 THEN Str(publishers[p])
             ELSE fallback

----------------------------------------------------------------------------
(* load_and_normalize_source *)

DigitChars == <<"0", "1", "2", "3", "4", "5", "6", "7", "8", "9">>

IsDigit(c) == \E d \in 1..10 : DigitChars[d] = c

DigitVal(c) == (CHOOSE d \in 1..10 : DigitChars[d] = c) - 1

RECURSIVE DigitsVal(_)
DigitsVal(chars) ==
    IF chars = <<>> THEN 0
    ELSE 10 * DigitsVal(SubSeq(chars, 1, Len(chars) - 1)) + DigitVal(chars[Len(chars)])

AllDigits(chars) == chars # <<>> /\ \A i \in 1..Len(chars) : IsDigit(chars[i])

\* the decimal text of a non-negative integer
RECURSIVE Decimal(_)
Decimal(i) ==
    IF i < 10 THEN <<DigitChars[i + 1]>> ELSE Decimal(i \div 10) \o <<DigitChars[(i % 10) + 1]>>

Abs(i) == IF i < 0 THEN -i ELSE i

\* str(x)
py_str(x) ==
    CASE x.kind = "str" -> x.s
      [] x.kind = "none" -> <<"N", "o", "n", "e">>
      [] x.kind = "nan" -> <<"n", "a", "n">>
      [] x.kind = "int" -> (IF x.n < 0 THEN <<"-">> ELSE <<>>) \o Decimal(Abs(x.n))
      [] x.kind = "float" ->
            (IF x.n < 0 THEN <<"-">> ELSE <<>>) \o Decimal(Abs(x.n) \div 10)
                \o <<".">> \o Decimal(Abs(x.n) % 10)

\* the number a text cell parses to: [-]digits[.digit]; <<FALSE, _>> otherwise
ParseNumber(chars) ==
    LET neg == chars # <<>> /\ chars[1] = "-"
        body == IF neg THEN SubSeq(chars, 2, Len(chars)) ELSE chars
        dot == Find(<<".">>, body)
        sign == IF neg THEN -1 ELSE 1
    IN  IF dot = 0
        THEN (IF AllDigits(body) THEN <<TRUE, IntV(sign * DigitsVal(body))>>
              ELSE <<FALSE, NaN>>)
        ELSE IF /\ dot = Len(body) - 1
                /\ AllDigits(SubSeq(body, 1, dot - 1))
                /\ IsDigit(body[Len(body)])
             THEN <<TRUE, FloatV(sign * (10 * DigitsVal(SubSeq(body, 1, dot - 1))
                                         + DigitVal(body[Len(body)])))>>
        ELSE <<FALSE, NaN>>

\* pd.to_numeric(x, errors="coerce") for one cell
to_numeric(x) ==
    CASE x.kind \in {"int", "float"} -> x
      [] x.kind = "str" -> ParseNumber(x.s)[2]
      [] OTHER -> NaN

fillna0(x) == IF x.kind = "nan" THEN IntV(0) ELSE x

\* astype(int): a float is truncated towards zero
astype_int(x) ==
    IF x.kind = "float"
    THEN IntV(IF x.n < 0 THEN -(Abs(x.n) \div 10) ELSE x.n \div 10)
    ELSE x

\* lines 134-135
coerce_quantity(x) == astype_int(fillna0(to_numeric(x)))

\* line 137
coerce_price(x) == fillna0(to_numeric(x))

Shi4 == <<"shi4">>

MarkerShipment == <<"fa1", "huo4", "dan", "ming2", "xi4">>

MarkerSupplement == <<"jiao", "fu", "mu", "lu">>

MarkerFree == <<"mian", "fei", "jiao", "cai">>

\* detect_format with the markers tested in the opposite order
detect_format_reversed(cell) ==
    LET text == py_str(cell)
    IN  IF Contains(MarkerFree, text) THEN "Free"
        ELSE IF Contains(MarkerSupplement, text) THEN "Supplement"
        ELSE IF Contains(MarkerShipment, text) THEN "Shipment"
        ELSE "Standard"

\* the branch the if/elif chain of lines 70-131 takes
detect_format(cell) ==
    LET text == py_str(cell)
    IN  IF Contains(MarkerShipment, text) THEN "Shipment"
        ELSE IF Contains(MarkerSupplement, text) THEN "Supplement"
        ELSE IF Contains(MarkerFree, text) THEN "Free"
        ELSE "Standard"

\* The headers a table can carry, by role.  A record of the table holds one
\* cell per role:
\*   name    产品名称 | 名称 | the 书..名 column | 书名
\*   version            版本 | the 版 column    | 版别
\*   price   定价     | 单价 |                  | 单价
\*   qtyA    发货数   | next-to-last column |   | 非免费订数
\*   qtyB             | last column | last column | 免费订数
\*   is_free 是否免费
Roles == {"name", "version", "price", "qtyA", "qtyB", "is_free"}

\* r.get(role): None when the table has no such column
get(cols, r, role) == IF role \in cols THEN r[role] ELSE NoneV

\* split_row comparing 是否免费 without .strip()
split_row_nostrip(cols, r) ==
    LET free == py_str(get(cols, r, "is_free")) = Shi4
    IN  [title |-> get(cols, r, "name"),
         label |-> NoneV,
         price |-> get(cols, r, "price"),
         paid |-> IF free THEN IntV(0) ELSE get(cols, r, "qtyA"),
         free |-> IF free THEN get(cols, r, "qtyA") ELSE IntV(0)]

\* split_row, lines 74-84
split_row(cols, r) ==
    LET free == Strip(py_str(get(cols, r, "is_free"))) = Shi4
    IN  [title |-> get(cols, r, "name"),
         label |-> NoneV,
         price |-> get(cols, r, "price"),
         paid |-> IF free THEN IntV(0) ELSE get(cols, r, "qtyA"),
         free |-> IF free THEN get(cols, r, "qtyA") ELSE IntV(0)]

\* the named lookups df[...] of each branch: a missing one raises KeyError
Required(format) ==
    CASE format = "Shipment" -> {}
      [] format = "Supplement" -> {"name", "version", "price"}
      [] format = "Free" -> {"name"}
      [] format = "Standard" -> {"name", "version", "price", "qtyA", "qtyB"}

reshape(format, cols, r) ==
    CASE format = "Shipment" -> split_row(cols, r)
      [] format = "Supplement" ->
            [title |-> r.name, label |-> r.version, price |-> r.price,
             paid |-> r.qtyA, free |-> r.qtyB]
      [] format = "Free" ->
            [title |-> r.name,
             label |-> IF "version" \in cols THEN r.version ELSE NoneV,
             price |-> IntV(0), paid |-> IntV(0), free |-> r.qtyB]
      [] format = "Standard" ->
            [title |-> r.name, label |-> r.version, price |-> r.price,
             paid |-> r.qtyA, free |-> r.qtyB]

\* The canonical rows, index = position in the file; ok = FALSE when the call
\* raises: the file is unreadable, a named column is missing, or (Shipment)
\* df.apply over an empty table returns the table itself, which has no
\* 非免费订数 column.
load_and_normalize_source(readable, cell, cols, recs) ==
    LET format == detect_format(cell)
        ok == /\ readable
              /\ Required(format) \subseteq cols
              /\ ~(format = "Shipment" /\ recs = <<>>)
    IN  [ok |-> ok,
         format |-> format,
         rows |-> IF ~ok THEN <<>>
                  ELSE [i \in 1..Len(recs) |->
                           LET c == reshape(format, cols, recs[i])
                           IN  [index |-> i,
                                title |-> c.title,
                                label |-> c.label,
                                price |-> coerce_price(c.price),
                                paid |-> coerce_quantity(c.paid),
                                free |-> coerce_quantity(c.free)]]]

----------------------------------------------------------------------------
(* The titles the parsers are applied to: concatenations of at most         *)
(* MaxFrags fragments.                                                      *)

MaxFrags == 3

\* 三年级  5年级  五  (上)  （下）  上册  语文  数学  英语练习
GradeFrags ==
    { <<"san", "nian", "ji">>, <<"5", "nian", "ji">>, <<"wu">>,
      <<"(", "shang", ")">>, <<"FW(", "xia", "FW)">>, <<"shang", "ce">>,
      <<"yu", "wen">>, <<"shu", "xue">>, <<"ying", "yu", "lian", "xi2">> }

\* 北师大版  北师大  人教版  语文社S版  配  （  )  space  湖南美术  数学
VersionFrags ==
    { BeiShiDaBan, BeiShiDa, <<"ren", "jiao", "ban">>,
      <<"yu", "wen", "she", "S", "ban">>, <<"pei">>, <<"FW(">>, <<")">>, <<" ">>,
      <<"hu", "nan", "mei", "shu4">>, <<"shu", "xue">> }

RECURSIVE Concats(_, _)
Concats(frags, k) ==
    IF k = 0 THEN {<<>>}
    ELSE LET shorter == Concats(frags, k - 1)
         IN  shorter \cup {t \o f : t \in shorter, f \in frags}

\* a title cell of the source: a string, a blank cell (NaN) or a number
TextTitles ==
    {Str(t) : t \in Concats(GradeFrags, MaxFrags) \cup Concats(VersionFrags, MaxFrags)}
        \cup {NaN, IntV(3)}

Fallbacks == {NoneV, Str(<<"su", "jiao", "ban">>)}

NotCalled == [fn |-> "none", out |-> <<>>]

----------------------------------------------------------------------------
(* The pipeline variables while only a parser or the adapter runs *)

NoStats == [processed |-> 0, missing_grade |-> 0, missing_subject |-> 0]

AllOk == [source |-> TRUE, template |-> TRUE, save |-> TRUE, side |-> TRUE]

NoFile == [state |-> "absent", content |-> <<>>]

NoTemplate == [rows |-> 0, width |-> 0, start_row |-> 1]

MainIdle ==
    /\ df_src = <<>>
    /\ tpl = NoTemplate
    /\ ws = <<>>
    /\ max_col = 0
    /\ current_row = 0
    /\ idx = 0
    /\ stats = NoStats
    /\ main_rows = <<>>
    /\ out_main = NoFile
    /\ out_side = NoFile
    /\ io = AllOk

SourceIdle ==
    /\ first_cell = NoneV
    /\ columns = {}
    /\ records = <<>>
    /\ detected = "none"

ParsersIdle ==
    /\ book_name = NoneV
    /\ fallback_version = NoneV
    /\ parsed = NotCalled

mainVars == <<pc, first_cell, columns, records, detected, df_src, tpl, ws, max_col,
              current_row, idx, stats, main_rows, out_main, out_side, io>>

sourceVars == <<first_cell, columns, records, io, tpl>>

parserVars == <<book_name, fallback_version, parsed>>

----------------------------------------------------------------------------
(* SpecText: each parser applied to a title *)

InitText ==
    /\ pc = "parsers"
    /\ SourceIdle
    /\ MainIdle
    /\ book_name \in TextTitles
    /\ fallback_version \in Fallbacks
    /\ parsed = NotCalled

ParseGradeAndTerm ==
    /\ pc = "parsers"
    /\ parsed = NotCalled
    /\ parsed' = [fn |-> "parse_grade_and_term", out |-> parse_grade_and_term(book_name)]
    /\ UNCHANGED <<mainVars, book_name, fallback_version>>

ParseSubject ==
    /\ pc = "parsers"
    /\ parsed = NotCalled
    /\ parsed' = [fn |-> "parse_subject", out |-> <<parse_subject(book_name)>>]
    /\ UNCHANGED <<mainVars, book_name, fallback_version>>

ParseCategory ==
    /\ pc = "parsers"
    /\ parsed = NotCalled
    /\ parsed' = [fn |-> "parse_category", out |-> <<parse_category(book_name)>>]
    /\ UNCHANGED <<mainVars, book_name, fallback_version>>

ParseVersion ==
    /\ pc = "parsers"
    /\ parsed = NotCalled
    /\ parsed' = [fn |-> "parse_version",
                  out |-> <<parse_version(book_name, fallback_version)>>]
    /\ UNCHANGED <<mainVars, book_name, fallback_version>>

NextText == ParseGradeAndTerm \/ ParseSubject \/ ParseCategory \/ ParseVersion

SpecText == InitText /\ [][NextText]_vars

----------------------------------------------------------------------------
(* The worksheet (openpyxl).  A cell is [value, style]; value kind "absent"  *)
(* marks a coordinate that holds no cell object.  style 0 is "no style".    *)
(* Merged cells are not modelled: the template rows written are ordinary.   *)

MaxRows == 3

SheetCols == 12

\* rows of the sheet the run can touch: start_row <= 3, MaxRows data rows
SheetRows == 3 + MaxRows

AbsentV == [kind |-> "absent", s |-> <<>>, n |-> 0]

NoCell == [value |-> AbsentV, style |-> 0]

\* the cell the template holds at (r, c)
TplValue(r, c) == [kind |-> "tpl", s |-> <<>>, n |-> 100 * r + c]

TplCell(r, c) == [value |-> TplValue(r, c), style |-> 100 * r + c]

\* load_workbook(template).active: rows 1..t.rows by columns 1..t.width filled
load_workbook(t) ==
    [r \in 1..SheetRows |->
        [c \in 1..SheetCols |->
            IF r <= t.rows /\ c <= t.width THEN TplCell(r, c) ELSE NoCell]]

Max(S) == CHOOSE i \in S : \A j \in S : j <= i

Exists(sheet, r, c) == sheet[r][c].value # AbsentV

\* ws.max_row / ws.max_column: 1 for a sheet without cells
max_row(sheet) ==
    LET used == {r \in 1..SheetRows : \E c \in 1..SheetCols : Exists(sheet, r, c)}
    IN  IF used = {} THEN 1 ELSE Max(used)

max_column(sheet) ==
    LET used == {c \in 1..SheetCols : \E r \in 1..SheetRows : Exists(sheet, r, c)}
    IN  IF used = {} THEN 1 ELSE Max(used)

\* ws.cell(row, column): creates the cell (value None) when there is none
touch(cell) == IF cell.value = AbsentV THEN [value |-> NoneV, style |-> 0] ELSE cell

\* ws.cell(row, column, value): the value is assigned only when it is not None
cell_set(cell, value) ==
    IF value = NoneV THEN touch(cell) ELSE [touch(cell) EXCEPT !.value = value]

\* copy_row_style copying the styles and not the values
copy_row_style_only(sheet, src_row, tgt_row, maxc) ==
    [sheet EXCEPT
        ![src_row] = [c \in 1..SheetCols |->
                        IF c <= maxc THEN touch(sheet[src_row][c]) ELSE sheet[src_row][c]],
        ![tgt_row] = [c \in 1..SheetCols |->
                        IF c > maxc THEN sheet[tgt_row][c]
                        ELSE [value |-> touch(sheet[tgt_row][c]).value,
                              style |-> IF touch(sheet[src_row][c]).style # 0
                                        THEN touch(sheet[src_row][c]).style
                                        ELSE touch(sheet[tgt_row][c]).style]]]

\* copy_row_style, lines 41-48: ws.cell() creates the source and the target
\* cell of every column 1..max_col; the target takes the source's value, and
\* its style when the source has one
copy_row_style(sheet, src_row, tgt_row, maxc) ==
    [sheet EXCEPT
        ![src_row] = [c \in 1..SheetCols |->
                        IF c <= maxc THEN touch(sheet[src_row][c]) ELSE sheet[src_row][c]],
        ![tgt_row] = [c \in 1..SheetCols |->
                        IF c > maxc THEN sheet[tgt_row][c]
                        ELSE [value |-> touch(sheet[src_row][c]).value,
                              style |-> IF touch(sheet[src_row][c]).style # 0
                                        THEN touch(sheet[src_row][c]).style
                                        ELSE touch(sheet[tgt_row][c]).style]]]

----------------------------------------------------------------------------
(* main() *)

Year == Str(<<"2", "0", "2", "5">>)

\* the lambda of lines 286-293
grade_order(title) ==
    LET grade == parse_grade_and_term(title)[1]
    IN  CASE grade = Str(<<"yi", "nian", "ji">>) -> 1
          [] grade = Str(<<"er", "nian", "ji">>) -> 2
          [] grade = Str(<<"san", "nian", "ji">>) -> 3
          [] grade = Str(<<"si", "nian", "ji">>) -> 4
          [] grade = Str(<<"wu", "nian", "ji">>) -> 5
          [] grade = Str(<<"liu", "nian", "ji">>) -> 6
          [] OTHER -> 99

Perms(n) == {p \in [1..n -> 1..n] : \A i, j \in 1..n : i # j => p[i] # p[j]}

\* df_src["_grade_order"] = df_src["书名"].apply(...), lines 285-294
with_grade_order(rows) ==
    [i \in 1..Len(rows) |->
        [index |-> rows[i].index, title |-> rows[i].title, label |-> rows[i].label,
         price |-> rows[i].price, paid |-> rows[i].paid, free |-> rows[i].free,
         grade_order |-> grade_order(rows[i].title)]]

\* df.sort_values(by="_grade_order"): kind defaults to "quicksort", which does
\* not promise the order of rows with equal keys; every ordering by key is a
\* possible result.  An order q lists the input positions in output order.
sort_orders(rows) ==
    {q \in Perms(Len(rows)) :
        \A i, j \in 1..Len(rows) :
            i < j => rows[q[i]].grade_order <= rows[q[j]].grade_order}

\* the rows in the order q, .drop(columns="_grade_order")
sort_values(rows, q) ==
    [i \in 1..Len(rows) |->
        [index |-> rows[q[i]].index, title |-> rows[q[i]].title,
         label |-> rows[q[i]].label, price |-> rows[q[i]].price,
         paid |-> rows[q[i]].paid, free |-> rows[q[i]].free]]

\* the values list of lines 336-346
values_of(r) ==
    LET gt == parse_grade_and_term(r.title)
    IN  << Year, gt[2], gt[1], parse_subject(r.title), parse_category(r.title),
           r.title, r.label, IntV(r.paid.n + r.free.n), r.price >>

\* one iteration of the loop of lines 315-353 on the sheet
fill_row(sheet, r, i, row, start, maxc) ==
    Only({[styled EXCEPT
            ![row] = [c \in 1..SheetCols |->
                        IF c = 1 THEN cell_set(styled[row][c], IntV(i + 1))
                        ELSE IF c \in 3..11 THEN cell_set(styled[row][c], values[c - 2])
                        ELSE styled[row][c]]] :
          styled \in {IF row > max_row(sheet)
                      THEN copy_row_style(sheet, start, row, maxc)
                      ELSE sheet},
          values \in {values_of(r)}})

\* the dict of lines 367-375
side_row(r) ==
    [version |-> parse_version(r.title, r.label),
     grade |-> parse_grade_and_term(r.title)[1],
     title |-> r.title,
     price |-> r.price,
     quantity |-> IntV(r.paid.n + r.free.n),
     category |-> parse_category(r.title),
     subject |-> parse_subject(r.title)]

\* line 281, the call returns
LoadSource ==
    /\ pc = "start"
    /\ LET res == load_and_normalize_source(io.source, first_cell, columns, records)
       IN  /\ res.ok
           /\ df_src' = res.rows
           /\ detected' = res.format
    /\ pc' = "loaded"
    /\ UNCHANGED <<sourceVars, ws, max_col, current_row, idx, stats, main_rows,
                   out_main, out_side, parserVars>>

\* line 281, the call raises: main() ends with the exception
LoadSourceFails ==
    /\ pc = "start"
    /\ LET res == load_and_normalize_source(io.source, first_cell, columns, records)
       IN  /\ ~res.ok
           /\ detected' = IF io.source THEN res.format ELSE "none"
    /\ pc' = "failed"
    /\ UNCHANGED <<sourceVars, df_src, ws, max_col, current_row, idx, stats, main_rows,
                   out_main, out_side, parserVars>>

\* lines 285-294
GradeOrder ==
    /\ pc = "loaded"
    /\ df_src' = with_grade_order(df_src)
    /\ pc' = "keyed"
    /\ UNCHANGED <<sourceVars, detected, ws, max_col, current_row, idx, stats, main_rows,
                   out_main, out_side, parserVars>>

\* line 295
Sort ==
    /\ pc = "keyed"
    /\ \E q \in sort_orders(df_src) : df_src' = sort_values(df_src, q)
    /\ pc' = "sorted"
    /\ UNCHANGED <<sourceVars, detected, ws, max_col, current_row, idx, stats, main_rows,
                   out_main, out_side, parserVars>>

\* lines 300-313
LoadTemplate ==
    /\ pc = "sorted"
    /\ io.template
    /\ ws' = load_workbook(tpl)
    /\ max_col' = max_column(load_workbook(tpl))
    /\ current_row' = tpl.start_row
    /\ stats' = NoStats
    /\ idx' = 0
    /\ pc' = "filling"
    /\ UNCHANGED <<sourceVars, detected, df_src, main_rows, out_main, out_side, parserVars>>

\* lines 305-307: logger.critical, return
LoadTemplateFails ==
    /\ pc = "sorted"
    /\ ~io.template
    /\ pc' = "failed"
    /\ UNCHANGED <<sourceVars, detected, df_src, ws, max_col, current_row, idx, stats,
                   main_rows, out_main, out_side, parserVars>>

\* the loop skipping (continue) a row whose title gives no grade
FillRow_skip_ungraded ==
    /\ pc = "filling"
    /\ idx < Len(df_src)
    /\ LET r == df_src[idx + 1]
           grade == parse_grade_and_term(r.title)[1]
           subject == parse_subject(r.title)
       IN  IF Truthy(grade)
           THEN /\ stats' = [processed |-> stats.processed + 1,
                             missing_grade |-> stats.missing_grade,
                             missing_subject |-> stats.missing_subject
                                                 + (IF Truthy(subject) THEN 0 ELSE 1)]
                /\ ws' = fill_row(ws, r, idx, current_row, tpl.start_row, max_col)
                /\ main_rows' = Append(main_rows, values_of(r))
                /\ current_row' = current_row + 1
           ELSE /\ stats' = [stats EXCEPT !.missing_grade = @ + 1]
                /\ UNCHANGED <<ws, main_rows, current_row>>
    /\ idx' = idx + 1
    /\ UNCHANGED <<pc, sourceVars, detected, df_src, max_col, out_main, out_side,
                   parserVars>>

\* lines 315-353, one iteration
FillRow ==
    /\ pc = "filling"
    /\ idx < Len(df_src)
    /\ LET r == df_src[idx + 1]
           grade == parse_grade_and_term(r.title)[1]
           subject == parse_subject(r.title)
       IN  /\ stats' = [processed |-> stats.processed + 1,
                        missing_grade |-> stats.missing_grade
                                            + (IF Truthy(grade) THEN 0 ELSE 1),
                        missing_subject |-> stats.missing_subject
                                            + (IF Truthy(subject) THEN 0 ELSE 1)]
           /\ ws' = fill_row(ws, r, idx, current_row, tpl.start_row, max_col)
           /\ main_rows' = Append(main_rows, values_of(r))
    /\ current_row' = current_row + 1
    /\ idx' = idx + 1
    /\ UNCHANGED <<pc, sourceVars, detected, df_src, max_col, out_main, out_side,
                   parserVars>>

\* line 355
SaveMain ==
    /\ pc = "filling"
    /\ idx = Len(df_src)
    /\ io.save
    /\ out_main' = [state |-> "written", content |-> ws]
    /\ pc' = "side"
    /\ UNCHANGED <<sourceVars, detected, df_src, ws, max_col, current_row, idx, stats,
                   main_rows, out_side, parserVars>>

\* line 355 raises: the file was not opened, or was opened and left incomplete
SaveMainFails ==
    /\ pc = "filling"
    /\ idx = Len(df_src)
    /\ ~io.save
    /\ out_main' \in {NoFile, [state |-> "partial", content |-> <<>>]}
    /\ pc' = "failed"
    /\ UNCHANGED <<sourceVars, detected, df_src, ws, max_col, current_row, idx, stats,
                   main_rows, out_side, parserVars>>

\* lines 361-379
WriteSide ==
    /\ pc = "side"
    /\ io.side
    /\ out_side' = [state |-> "written",
                    content |-> [i \in 1..Len(df_src) |-> side_row(df_src[i])]]
    /\ pc' = "done"
    /\ UNCHANGED <<sourceVars, detected, df_src, ws, max_col, current_row, idx, stats,
                   main_rows, out_main, parserVars>>

\* line 378 raises
WriteSideFails ==
    /\ pc = "side"
    /\ ~io.side
    /\ out_side' \in {NoFile, [state |-> "partial", content |-> <<>>]}
    /\ pc' = "failed"
    /\ UNCHANGED <<sourceVars, detected, df_src, ws, max_col, current_row, idx, stats,
                   main_rows, out_main, parserVars>>

----------------------------------------------------------------------------
(* Inputs of main() *)

\* 统计表 (no marker) and 发货单明细
CellStandard == Str(<<"tong3", "ji5", "biao">>)

CellShipment == Str(MarkerShipment)

\* 三年级语文上册, 一年级数学, 英语练习 and a blank title cell
MainTitles ==
    { Str(<<"san", "nian", "ji", "yu", "wen", "shang", "ce">>),
      Str(<<"yi", "nian", "ji", "shu", "xue">>),
      Str(<<"ying", "yu", "lian", "xi2">>),
      NaN }

MainRecords ==
    {[name |-> t, version |-> Str(<<"ren", "jiao", "ban">>), price |-> FloatV(125),
      qtyA |-> IntV(2), qtyB |-> IntV(1), is_free |-> Str(<<"fou">>)] : t \in MainTitles}

SeqsUpTo(S, n) == UNION {[1..k -> S] : k \in 0..n}

\* the first file operation the file system refuses, if any
IoCases ==
    { AllOk,
      [AllOk EXCEPT !.source = FALSE],
      [AllOk EXCEPT !.template = FALSE],
      [AllOk EXCEPT !.save = FALSE],
      [AllOk EXCEPT !.side = FALSE] }

TplDefault == [rows |-> 2, width |-> SheetCols, start_row |-> 2]

\* a template with fewer rows than data, with none at start_row, an empty one,
\* a narrow one
TplCases ==
    { TplDefault,
      [rows |-> 3, width |-> SheetCols, start_row |-> 1],
      [rows |-> 1, width |-> SheetCols, start_row |-> 3],
      [rows |-> 0, width |-> 0, start_row |-> 1],
      [rows |-> 2, width |-> 2, start_row |-> 2] }

Init ==
    /\ pc = "start"
    /\ first_cell \in {CellStandard, CellShipment}
    /\ columns \in {Roles, Roles \ {"price"}}
    /\ records \in SeqsUpTo(MainRecords, MaxRows)
    /\ io \in IoCases
    /\ tpl \in TplCases
    /\ (io # AllOk \/ columns # Roles) => (tpl = TplDefault /\ first_cell = CellStandard)
    /\ detected = "none"
    /\ df_src = <<>>
    /\ ws = <<>>
    /\ max_col = 0
    /\ current_row = 0
    /\ idx = 0
    /\ stats = NoStats
    /\ main_rows = <<>>
    /\ out_main = NoFile
    /\ out_side = NoFile
    /\ ParsersIdle

Next ==
    \/ LoadSource
    \/ LoadSourceFails
    \/ GradeOrder
    \/ Sort
    \/ LoadTemplate
    \/ LoadTemplateFails
    \/ FillRow
    \/ SaveMain
    \/ SaveMainFails
    \/ WriteSide
    \/ WriteSideFails

Spec == Init /\ [][Next]_vars

\* The runs the completion property is checked on: the Standard-Statistics
\* source, a template shorter than the data and one with no row at start_row,
\* and, with at most one record, each refused file operation.
InitLive ==
    /\ Init
    /\ first_cell = CellStandard
    /\ tpl \in {TplDefault, [rows |-> 1, width |-> SheetCols, start_row |-> 3]}
    /\ (io # AllOk \/ columns # Roles) => Len(records) <= 1

\* main() is one sequential run: every step that can be taken is taken
SpecLive == InitLive /\ [][Next]_vars /\ WF_vars(Next)

----------------------------------------------------------------------------
(* SpecLoad: load_and_normalize_source over the top-left cells and the      *)
(* cell contents a workbook can hold                                        *)

MaxCellFrags == 3

MaxNum == 2

\* 发货单明细  教辅目录  免费教材  统计表  发货单  明细
CellFrags ==
    { MarkerShipment, MarkerSupplement, MarkerFree, <<"tong3", "ji5", "biao">>,
      <<"fa1", "huo4", "dan">>, <<"ming2", "xi4">> }

\* the top-left cell: text, blank, or a number
FirstCells == {Str(t) : t \in Concats(CellFrags, MaxCellFrags)} \cup {NaN, IntV(7)}

\* one top-left cell per format
FormatCells == {CellStandard, CellShipment, Str(MarkerSupplement), Str(MarkerFree)}

\* a quantity or price cell: blank, text, numeric text, integers, fractions
NumberCells ==
    {NaN, Str(<<"a", "b">>), Str(<<"-", "3">>), Str(<<"1", "2">>), Str(<<"2", ".", "5">>),
     FloatV(-27), FloatV(15)}
        \cup {IntV(i) : i \in (-MaxNum)..MaxNum}

\* 是, 是 between spaces, 否, 是的, blank
IsFreeCells ==
    {Str(Shi4), Str(<<" ", "shi4", " ">>), Str(<<"fou">>), Str(<<"shi4", "de">>), NaN}

SimpleRecord ==
    [name |-> Str(<<"san", "nian", "ji", "yu", "wen", "shang", "ce">>),
     version |-> Str(<<"ren", "jiao", "ban">>), price |-> FloatV(125),
     qtyA |-> IntV(2), qtyB |-> IntV(1), is_free |-> Str(<<"fou">>)]

RichRecords ==
    {[SimpleRecord EXCEPT !.price = p, !.qtyA = a, !.qtyB = b, !.is_free = f] :
        p \in {NaN, Str(<<"a", "b">>), FloatV(125)},
        a \in NumberCells, b \in NumberCells, f \in IsFreeCells}

ColumnSets == {Roles} \cup {Roles \ {c} : c \in Roles}

InitLoad ==
    /\ pc = "start"
    /\ \/ /\ first_cell \in FirstCells
          /\ columns = Roles
          /\ records = <<SimpleRecord>>
          /\ io = AllOk
       \/ /\ first_cell \in FormatCells
          /\ columns \in ColumnSets
          /\ records \in {<<>>, <<SimpleRecord>>,
                          <<SimpleRecord, [SimpleRecord EXCEPT !.is_free = Str(Shi4)]>>}
          /\ io \in {AllOk, [AllOk EXCEPT !.source = FALSE]}
       \/ /\ first_cell \in FormatCells
          /\ columns = Roles
          /\ records \in {<<r>> : r \in RichRecords}
          /\ io = AllOk
    /\ tpl = TplDefault
    /\ detected = "none"
    /\ df_src = <<>>
    /\ ws = <<>>
    /\ max_col = 0
    /\ current_row = 0
    /\ idx = 0
    /\ stats = NoStats
    /\ main_rows = <<>>
    /\ out_main = NoFile
    /\ out_side = NoFile
    /\ ParsersIdle

NextLoad == LoadSource \/ LoadSourceFails

SpecLoad == InitLoad /\ [][NextLoad]_vars

----------------------------------------------------------------------------
(* Claims about the parsers (SpecText) *)

Called(fn) == parsed.fn = fn

\* C4: parse_grade_and_term takes the grade from a numeral followed by 年级,
\* else from a Chinese numeral that accompanies a 上/下 marker, and the term
\* from an independent pass; in particular 三年级语文上册 gives (三年级, 上学期),
\* 英语练习 gives (None, None) and 五(上)数学 gives (五年级, 上学期).
C4_GradeAndTermExamples ==
    Called("parse_grade_and_term") =>
        /\ book_name = Str(<<"san", "nian", "ji", "yu", "wen", "shang", "ce">>)
            => parsed.out = <<Str(<<"san", "nian", "ji">>), Str(<<"shang", "xue", "qi">>)>>
        /\ book_name = Str(<<"ying", "yu", "lian", "xi2">>)
            => parsed.out = <<NoneV, NoneV>>
        /\ book_name = Str(<<"wu", "(", "shang", ")", "shu", "xue">>)
            => parsed.out = <<Str(<<"wu", "nian", "ji">>), Str(<<"shang", "xue", "qi">>)>>

\* The token list of C7, in the order the claim gives it:
\* 北师大版, 北师大, 人教版, 粤教版, 人音版, 人美版, 语文S版, 语文社S版
C7_Tokens ==
    << <<"bei", "shi", "da", "ban">>, <<"bei", "shi", "da">>, <<"ren", "jiao", "ban">>,
       <<"yue", "jiao", "ban">>, <<"ren", "yin", "ban">>, <<"ren", "mei", "ban">>,
       <<"yu", "wen", "S", "ban">>, <<"yu", "wen", "she", "S", "ban">> >>

C7_Present(title) == {k \in 1..Len(C7_Tokens) : Contains(C7_Tokens[k], title)}

C7_Publishers(title) == {k \in 1..Len(publishers) : Contains(publishers[k], title)}

C7_HasPeiClause(title) == PeiHits(ReplaceBrackets(title)) # {}

\* C7: parse_version applies its rules in strict precedence: a title holding an
\* explicit token yields the first token of the list order that occurs in it
\* (bare 北师大 as 北师大版) wherever the tokens sit and whatever 配-clause it
\* has; without a token the 配-clause decides, then the publisher list, and
\* only when nothing matches is the fallback returned unchanged.
C7_VersionPrecedence ==
    (Called("parse_version") /\ isinstance_str(book_name)) =>
        LET title == book_name.s
            got == parsed.out[1]
        IN  IF C7_Present(title) # {}
            THEN LET tok == C7_Tokens[Least(C7_Present(title))]
                 IN  got = Str(IF tok = <<"bei", "shi", "da">>
                               THEN <<"bei", "shi", "da", "ban">> ELSE tok)
            ELSE IF C7_HasPeiClause(title)
            THEN LET text == ReplaceBrackets(title)
                 IN  got = Str(Strip(PeiMatchAt(text, Least(PeiHits(text)))[2]))
            ELSE IF C7_Publishers(title) # {}
            THEN got = Str(publishers[Least(C7_Publishers(title))])
            ELSE got = fallback_version

\* 人教版 sits before 北师大 in the title, which also has a 配-clause: the list
\* order decides
C7_Witness ==
    /\ Called("parse_version")
    /\ book_name = Str(<<"pei", "ren", "jiao", "ban", "bei", "shi", "da">>)
    /\ parsed.out = <<Str(<<"bei", "shi", "da", "ban">>)>>

----------------------------------------------------------------------------
(* Claims about the adapter (SpecLoad) *)

Loaded == pc = "loaded"

IsNumber(x) == x.kind \in {"int", "float"}

\* C3: every row load_and_normalize_source returns has 非免费订数 and 免费订数
\* as integers >= 0 and 单价 as a number, never null/NaN, whatever the source
\* cells hold (blank, text, numbers including negative ones).
C3_QuantitiesWellTyped ==
    Loaded =>
        \A i \in 1..Len(df_src) :
            /\ df_src[i].paid.kind = "int" /\ df_src[i].paid.n >= 0
            /\ df_src[i].free.kind = "int" /\ df_src[i].free.n >= 0
            /\ IsNumber(df_src[i].price)

C6_Has(marker) == Contains(marker, py_str(first_cell))

\* C6: format detection is total and mutually exclusive: exactly one of the
\* four formats is selected, by the priority 发货单明细 > 教辅目录 > 免费教材,
\* and a cell with none of the three markers is Standard-Statistics.
C6_DetectionTotalByPriority ==
    detected # "none" =>
        /\ detected \in {"Shipment", "Supplement", "Free", "Standard"}
        /\ C6_Has(<<"fa1", "huo4", "dan", "ming2", "xi4">>) => detected = "Shipment"
        /\ (/\ ~C6_Has(<<"fa1", "huo4", "dan", "ming2", "xi4">>)
            /\ C6_Has(<<"jiao", "fu", "mu", "lu">>)) => detected = "Supplement"
        /\ (/\ ~C6_Has(<<"fa1", "huo4", "dan", "ming2", "xi4">>)
            /\ ~C6_Has(<<"jiao", "fu", "mu", "lu">>)
            /\ C6_Has(<<"mian", "fei", "jiao", "cai">>)) => detected = "Free"
        /\ (/\ ~C6_Has(<<"fa1", "huo4", "dan", "ming2", "xi4">>)
            /\ ~C6_Has(<<"jiao", "fu", "mu", "lu">>)
            /\ ~C6_Has(<<"mian", "fei", "jiao", "cai">>)) => detected = "Standard"

\* the cell 免费教材 教辅目录 发货单明细 holds all three markers, lowest priority first
C6_Witness ==
    /\ first_cell = Str(<<"mian", "fei", "jiao", "cai", "jiao", "fu", "mu", "lu",
                          "fa1", "huo4", "dan", "ming2", "xi4">>)
    /\ detected = "Shipment"

C10_Shipped(r) == coerce_quantity(IF "qtyA" \in columns THEN r.qtyA ELSE NoneV)

C10_IsFree(r) ==
    /\ "is_free" \in columns
    /\ r.is_free.kind = "str"
    /\ Strip(r.is_free.s) = <<"shi4">>

\* C10: in Shipment-Detail format the shipped quantity of every record goes
\* entirely to one side: to freeQuantity when 是否免费, trimmed, equals 是, to
\* paidQuantity otherwise; the other side is 0, the two add up to the coerced
\* shipped quantity, and publisherLabel is absent.
C10_ShipmentSplit ==
    (detected = "Shipment" /\ pc # "failed") =>
        \A i \in 1..Len(df_src) :
            LET row == df_src[i]
                r == records[row.index]
            IN  /\ C10_IsFree(r) => (row.free = C10_Shipped(r) /\ row.paid = IntV(0))
                /\ ~C10_IsFree(r) => (row.paid = C10_Shipped(r) /\ row.free = IntV(0))
                /\ row.paid.n + row.free.n = C10_Shipped(r).n
                /\ row.paid.n = 0 \/ row.free.n = 0
                /\ row.label = NoneV

\* a record marked " 是 " (spaces around it) with a shipped quantity
C10_Witness ==
    /\ detected = "Shipment"
    /\ Loaded
    /\ \E i \in 1..Len(df_src) :
        /\ records[i].is_free = Str(<<" ", "shi4", " ">>)
        /\ df_src[i].free.n = 2
        /\ df_src[i].paid.n = 0

----------------------------------------------------------------------------
(* Claims about main() (Spec, SpecLive) *)

Handed == pc \in {"sorted", "filling", "side", "done"}

\* C1: the rows handed to the writers are ordered by grade rank ascending
\* (no grade = 99, last), and rows of equal rank keep their input order.
C1_SortedAndStable ==
    Handed =>
        \A i, j \in 1..Len(df_src) :
            i < j =>
                /\ grade_order(df_src[i].title) <= grade_order(df_src[j].title)
                /\ grade_order(df_src[i].title) = grade_order(df_src[j].title)
                    => df_src[i].index < df_src[j].index

\* C2: a run that fails has written neither output file.
C2_NoPartialOutput ==
    pc = "failed" => (out_main.state = "absent" /\ out_side.state = "absent")

C5_Categories == {Str(<<"jiao", "cai">>), Str(<<"jiao", "fu">>)}

\* C5 as claimed: every row emitted to either output has a category in
\* {教材, 教辅}, also when its title is null or not a string.
C5_CategoryAlwaysPresent ==
    /\ \A k \in 1..Len(main_rows) : main_rows[k][5] \in C5_Categories
    /\ out_side.state = "written" =>
        \A k \in 1..Len(out_side.content) : out_side.content[k].category \in C5_Categories

\* C5 as amended: an emitted row whose title is a string has a category in
\* {教材, 教辅}; a row whose title is not a string has no category (None).
C5_CategoryOfStringTitles ==
    /\ \A k \in 1..Len(main_rows) :
        IF main_rows[k][6].kind = "str" THEN main_rows[k][5] \in C5_Categories
        ELSE main_rows[k][5] = NoneV
    /\ out_side.state = "written" =>
        \A k \in 1..Len(out_side.content) :
            IF out_side.content[k].title.kind = "str"
            THEN out_side.content[k].category \in C5_Categories
            ELSE out_side.content[k].category = NoneV

\* a finished run with a blank title and a title without keyword
C5_Witness ==
    /\ pc = "done"
    /\ \E k \in 1..Len(out_side.content) :
        out_side.content[k].title = NaN /\ main_rows[k][5] = NoneV
    /\ \E k \in 1..Len(out_side.content) :
        /\ out_side.content[k].title = Str(<<"yi", "nian", "ji", "shu", "xue">>)
        /\ out_side.content[k].category = Str(<<"jiao", "cai">>)

\* what a coordinate of a sheet reads as: None where there is no cell
ValueAt(sheet, r, c) == IF sheet[r][c].value = AbsentV THEN NoneV ELSE sheet[r][c].value

C8_Written == pc \in {"filling", "side", "done"}

C8_DataRows == {r \in 1..SheetRows : tpl.start_row <= r /\ r < current_row}

C8_Untouched == (1..SheetCols) \ ({1} \cup 3..11)

C9_NoGrade == {k \in 1..Len(df_src) : parse_grade_and_term(df_src[k].title)[1] = NoneV}

C9_NoSubject == {k \in 1..Len(df_src) : parse_subject(df_src[k].title) = NoneV}

C9_Completed ==
    LET N == Len(df_src)
        sheet == out_main.content
    IN  /\ pc = "done"
        /\ out_main.state = "written"
        /\ out_side.state = "written"
        /\ \A k \in 1..N : sheet[tpl.start_row + k - 1][1].value = IntV(k)
        /\ \A r \in 1..SheetRows :
            (r < tpl.start_row \/ r >= tpl.start_row + N)
                => sheet[r] = load_workbook(tpl)[r]
        /\ Len(out_side.content) = N
        /\ \A k \in 1..N :
            /\ out_side.content[k].title = sheet[tpl.start_row + k - 1][8].value
            /\ out_side.content[k].title = df_src[k].title
            /\ out_side.content[k].quantity = sheet[tpl.start_row + k - 1][10].value
        /\ stats.processed = N
        /\ stats.missing_grade = Cardinality(C9_NoGrade)
        /\ stats.missing_subject = Cardinality(C9_NoSubject)

\* C9: data-quality problems are never fatal and drop no row: once the N
\* canonical rows are loaded, and the template loads and the file system
\* accepts both writes, the run completes with both outputs, the main output
\* holding rows 1..N at start_row..start_row+N-1, the side dump the same N rows
\* in the same order, processed = N and the two missing counts exact.
C9_RunCompletesWithAllRows ==
    (Loaded /\ io = AllOk) ~> C9_Completed

\* three rows, one with no grade and no subject (a blank title), all emitted
C9_Witness ==
    /\ C9_Completed
    /\ Len(df_src) = 3
    /\ stats.processed = 3
    /\ stats.missing_grade >= 1
    /\ stats.missing_subject >= 1
    /\ \E k \in 1..3 : df_src[k].title = NaN

====
